---- MODULE Spec2Model ----
(***************************************************************************)
(* WorldSession (src/game/Server/WorldSession.cpp): the per-connection     *)
(* session of the world server.  One session is modelled together with the *)
(* three contexts that call into it: the network thread (QueuePacket,      *)
(* RequestNewSocket, socket close), the world tick (Update and the calls   *)
(* made on the session between ticks) and the map tick (UpdateMap).        *)
(***************************************************************************)
EXTENDS Integers, Sequences, FiniteSets, TLC

----------------------------------------------------------------------------
(* Bounds of the model *)

\* sockets the network layer creates over the run (the constructor's one included)
MaxSockets == 2
\* envelopes submitted through QueuePacket over the run
MaxPackets == 3
\* clock advances over the run
MaxTicks == 1

----------------------------------------------------------------------------
(* Program constants *)

\* time(nullptr) at construction; any value large enough that now - 20 > 0
StartTime == 1000
\* KickPlayer: LogoutRequest(time(nullptr) - 20, false)
KickBackdate == 20
\* ShouldLogOut: _logoutTime + 20
LogoutDelay == 20
\* ShouldDisconnect: _logoutTime + 60
DisconnectDelay == 60
\* SetInCharSelection: m_kickTime = time(nullptr) + 15 * 60
KickDelay == 15 * 60

\* the player object a character-enter attaches, and its low guid
PlayerGuid == 7

STATE_CREATED == "CREATED"
STATE_CHAR_SELECTION == "CHAR_SELECTION"
STATE_READY == "READY"
STATE_OFFLINE == "OFFLINE"
SessionStates == {STATE_CREATED, STATE_CHAR_SELECTION, STATE_READY, STATE_OFFLINE}

PROCESS_INPLACE == "INPLACE"
PROCESS_THREADUNSAFE == "THREADUNSAFE"
PROCESS_MAP_THREAD == "MAP_THREAD"
PROCESS_IMMEDIATE == "IMMEDIATE"
Processings == {PROCESS_INPLACE, PROCESS_THREADUNSAFE, PROCESS_MAP_THREAD, PROCESS_IMMEDIATE}

STATUS_LOGGEDIN == "LOGGEDIN"
STATUS_LOGGEDIN_OR_RECENTLY_LOGGEDOUT == "LOGGEDIN_OR_RECENTLY_LOGGEDOUT"
STATUS_TRANSFER == "TRANSFER"
STATUS_AUTHED == "AUTHED"
STATUS_NEVER == "NEVER"
STATUS_UNHANDLED == "UNHANDLED"
Statuses == {STATUS_LOGGEDIN, STATUS_LOGGEDIN_OR_RECENTLY_LOGGEDOUT, STATUS_TRANSFER,
             STATUS_AUTHED, STATUS_NEVER, STATUS_UNHANDLED}

----------------------------------------------------------------------------
VARIABLES
    opcodeTable,            \* the opcodes of the static table: [processing, status, voice]
    kickOnBadPacket,        \* sWorld.getConfig(CONFIG_BOOL_KICK_PLAYER_ON_BAD_PACKET)
    m_sessionState,
    _player,                \* 0 is nullptr, otherwise the attached player's guid
    m_GUIDLow,
    inWorld,                \* _player->IsInWorld()
    m_Socket,               \* 0 is nullptr, otherwise a socket id
    m_requestSocket,
    closed,                 \* the sockets whose IsClosed() is true
    finalized,              \* socket id -> number of FinalizeSession calls
    nextSocket,             \* sockets created so far
    now,                    \* time(nullptr)
    ticks,
    _logoutTime,
    m_kickTime,
    m_inQueue,
    m_playerLoading,
    m_playerLogout,
    m_playerRecentlyLogout,
    m_playerSave,
    canDelayTeleport,       \* _player->m_bCanDelayTeleport, false with no player
    hasDelayedTeleport,     \* _player->IsHasDelayedTeleport(), false with no player
    messager,               \* GetMessager(): the guids captured by the posted callbacks
    m_recvQueue,
    m_recvQueueMap,
    m_recvQueueLock,        \* "free" or the context holding the mutex
    m_recvQueueMapLock,
    opcodeCounter,          \* sWorld.IncrementOpcodeCounter calls
    upc,                    \* position of the world tick inside Update; "destroyed" once
                            \* the destructor ran, "crashed" once the process faulted
    recvQueueCopy,
    ucur,                   \* the envelope whose handler Update is running
    result,                 \* what the last Update returned
    mpc,                    \* position of the map tick inside UpdateMap
    recvQueueMapCopy,
    mi,                     \* UpdateMap's loop counter i
    mcur,
    handled,                \* per queue, the ids of the envelopes passed to a handler, in order
    trace                   \* calls and messages produced by the last step

sessionVars == <<m_sessionState, _player, m_GUIDLow, inWorld, m_Socket, m_requestSocket,
                 closed, finalized, _logoutTime, m_kickTime, m_inQueue, m_playerLoading,
                 m_playerLogout, m_playerRecentlyLogout, m_playerSave, canDelayTeleport,
                 hasDelayedTeleport, messager>>
queueVars == <<m_recvQueue, m_recvQueueMap, m_recvQueueLock, m_recvQueueMapLock, opcodeCounter>>
worldVars == <<upc, recvQueueCopy, ucur, result>>
mapVars == <<mpc, recvQueueMapCopy, mi, mcur>>
envVars == <<opcodeTable, kickOnBadPacket, nextSocket, now, ticks>>
vars == <<sessionVars, queueVars, worldVars, mapVars, envVars, handled, trace>>

NoPacket == [id |-> 0, processing |-> "", status |-> "", voice |-> FALSE]

----------------------------------------------------------------------------
(* The session as a record, so that the methods are functions of it *)

Session == [m_sessionState |-> m_sessionState, _player |-> _player, m_GUIDLow |-> m_GUIDLow,
            inWorld |-> inWorld, m_Socket |-> m_Socket, m_requestSocket |-> m_requestSocket,
            closed |-> closed, finalized |-> finalized, _logoutTime |-> _logoutTime,
            m_kickTime |-> m_kickTime, m_inQueue |-> m_inQueue,
            m_playerLoading |-> m_playerLoading, m_playerLogout |-> m_playerLogout,
            m_playerRecentlyLogout |-> m_playerRecentlyLogout, m_playerSave |-> m_playerSave,
            canDelayTeleport |-> canDelayTeleport, hasDelayedTeleport |-> hasDelayedTeleport,
            messager |-> messager, out |-> <<>>]

Install(s) ==
    /\ m_sessionState' = s.m_sessionState
    /\ _player' = s._player
    /\ m_GUIDLow' = s.m_GUIDLow
    /\ inWorld' = s.inWorld
    /\ m_Socket' = s.m_Socket
    /\ m_requestSocket' = s.m_requestSocket
    /\ closed' = s.closed
    /\ finalized' = s.finalized
    /\ _logoutTime' = s._logoutTime
    /\ m_kickTime' = s.m_kickTime
    /\ m_inQueue' = s.m_inQueue
    /\ m_playerLoading' = s.m_playerLoading
    /\ m_playerLogout' = s.m_playerLogout
    /\ m_playerRecentlyLogout' = s.m_playerRecentlyLogout
    /\ m_playerSave' = s.m_playerSave
    /\ canDelayTeleport' = s.canDelayTeleport
    /\ hasDelayedTeleport' = s.hasDelayedTeleport
    /\ messager' = s.messager
    /\ trace' = s.out

Emit(s, e) == [s EXCEPT !.out = Append(@, e)]

IsClosed(s, sock) == sock \in s.closed

\* WorldSocket::Close and WorldSocket::FinalizeSession as the session uses them
SocketClose(s, sock) == [s EXCEPT !.closed = @ \cup {sock}]
FinalizeSession(s, sock) ==
    Emit([s EXCEPT !.finalized[sock] = @ + 1], <<"FinalizeSession", sock>>)

----------------------------------------------------------------------------
(* Session methods *)

\* WorldSession::SendPacket: nothing is sent without an open active socket
SendPacket(s, msg) ==
    IF s.m_Socket = 0 \/ IsClosed(s, s.m_Socket) THEN s
    ELSE Emit(s, <<"SendPacket", msg, s.m_Socket>>)

SendAuthOk(s) == SendPacket(s, "SMSG_AUTH_RESPONSE:AUTH_OK")
SendAuthQueued(s) == SendPacket(s, "SMSG_AUTH_RESPONSE:AUTH_WAIT_QUEUE")

LogoutRequest(s, requestTime, saveToDB) ==
    [s EXCEPT !._logoutTime = requestTime, !.m_playerSave = saveToDB]

ShouldLogOut(s, currTime) == s._logoutTime > 0 /\ currTime >= s._logoutTime + LogoutDelay
ShouldDisconnect(s, currTime) == s._logoutTime > 0 /\ currTime >= s._logoutTime + DisconnectDelay
IsOffline(s) == s.m_sessionState = STATE_OFFLINE

\* SetPlayer, lines 1287-1291; the teleport flags are fields of the player object,
\* and the object that comes or goes with the call has them clear
SetPlayer(s, plr, playerGuid) ==
    [s EXCEPT !._player = plr, !.m_GUIDLow = playerGuid,
              !.canDelayTeleport = FALSE, !.hasDelayedTeleport = FALSE]

\* SetAccountData, lines 1020-1062: what is written for a global and for a
\* per-character data type
SetAccountData(s, global) ==
    IF global THEN Emit(s, <<"SQL", "account_data">>)
    ELSE IF s.m_GUIDLow = 0 THEN s
    ELSE Emit(s, <<"SQL", "character_account_data", s.m_GUIDLow>>)

\* the state SetOffline ends in (line 146), and its mutation
OfflineStateCreated == STATE_CREATED
OfflineState == STATE_OFFLINE

\* SetOffline with its mutation: no logout is requested for the attached player
SetOfflineNoGrace(s, t) ==
    LET s1 == IF s._player # 0 THEN Emit(s, <<"SendFriendStatus", "FRIEND_OFFLINE">>) ELSE s
        s2 == IF s1.m_Socket # 0
              THEN LET c == IF ~IsClosed(s1, s1.m_Socket) THEN SocketClose(s1, s1.m_Socket) ELSE s1
                   IN [FinalizeSession(c, c.m_Socket) EXCEPT !.m_Socket = 0]
              ELSE s1
    IN [s2 EXCEPT !.m_sessionState = OfflineState]

\* SetOffline with its mutation: line 143 is missing, the finalized socket stays
\* the active one
SetOfflineKeepsSocket(s, t) ==
    LET s1 == IF s._player # 0
              THEN LogoutRequest(Emit(s, <<"SendFriendStatus", "FRIEND_OFFLINE">>), t, TRUE)
              ELSE s
        s2 == IF s1.m_Socket # 0
              THEN LET c == IF ~IsClosed(s1, s1.m_Socket) THEN SocketClose(s1, s1.m_Socket) ELSE s1
                   IN FinalizeSession(c, c.m_Socket)
              ELSE s1
    IN [s2 EXCEPT !.m_sessionState = OfflineState]
\* SetOffline, lines 126-147
SetOffline(s, t) ==
    LET s1 == IF s._player # 0
              THEN LogoutRequest(Emit(s, <<"SendFriendStatus", "FRIEND_OFFLINE">>), t, TRUE)
              ELSE s
        s2 == IF s1.m_Socket # 0
              THEN LET c == IF ~IsClosed(s1, s1.m_Socket) THEN SocketClose(s1, s1.m_Socket) ELSE s1
                   IN [FinalizeSession(c, c.m_Socket) EXCEPT !.m_Socket = 0]
              ELSE s1
    IN [s2 EXCEPT !.m_sessionState = OfflineState]

\* SetOnline with its mutation: the test of line 151 is missing
SetOnlineAlways(s) == [s EXCEPT !.m_sessionState = STATE_READY, !.m_kickTime = 0]
\* SetOnline, lines 149-156
SetOnline(s) ==
    IF s._player # 0 /\ s.m_Socket # 0 /\ ~IsClosed(s, s.m_Socket)
    THEN [s EXCEPT !.m_sessionState = STATE_READY, !.m_kickTime = 0]
    ELSE s

\* SetInCharSelection with its mutation: the inactivity deadline is not armed
SetInCharSelectionNoDeadline(s, t) == [s EXCEPT !.m_sessionState = STATE_CHAR_SELECTION]

SetInCharSelection(s, t) ==
    [s EXCEPT !.m_sessionState = STATE_CHAR_SELECTION, !.m_kickTime = t + KickDelay]

\* lines 167-168 with their mutation: a second pending socket replaces the first
RequestNewSocketReplaces(s, socket) ==
    [s EXCEPT !.m_requestSocket = socket, !.m_sessionState = STATE_CREATED]
\* lines 164-173, the session after the call
RequestNewSocket(s, socket) ==
    IF s.m_requestSocket # 0 THEN s
    ELSE [s EXCEPT !.m_requestSocket = socket, !.m_sessionState = STATE_CREATED]

\* line 762 with its mutation: the reference is left in place
DetachPlayerSkipped(s) == s
\* line 762: SetPlayer(nullptr, 0), the player object being deleted by the removal
DetachPlayer(s) == Emit([SetPlayer(s, 0, 0) EXCEPT !.inWorld = FALSE], <<"SetPlayer", 0, 0>>)

\* what the player object is part of when it logs out
PlayerKinds == {[guild |-> g, group |-> g, social |-> g] : g \in BOOLEAN}

\* lines 699-705 with their mutation: the player is saved before the pet is removed
LogoutSaveThenPet(s) ==
    Emit(IF s.m_playerSave THEN Emit(s, <<"SaveToDB">>) ELSE s, <<"RemovePet">>)
\* lines 699-705: RemovePet, then SaveToDB unless the kick asked for no save
LogoutPetAndSave(s) ==
    LET c == Emit(s, <<"RemovePet">>)
    IN IF c.m_playerSave THEN Emit(c, <<"SaveToDB">>) ELSE c

\* lines 751-766 with their mutation: the reference is cleared before the removal
LogoutClearThenRemove(s) ==
    LET j == DetachPlayer(s)
        i == IF s.inWorld THEN Emit(j, <<"Map", "Remove">>)
             ELSE Emit(Emit(j, <<"CleanupsBeforeDelete">>), <<"Map", "DeleteFromWorld">>)
    IN SendPacket(i, "SMSG_LOGOUT_COMPLETE")
\* lines 751-766: Map::Remove of a player in the world, else CleanupsBeforeDelete
\* and Map::DeleteFromWorld; SetPlayer(nullptr, 0); SMSG_LOGOUT_COMPLETE
LogoutRemoval(s) ==
    LET i == IF s.inWorld THEN Emit(s, <<"Map", "Remove">>)
             ELSE Emit(Emit(s, <<"CleanupsBeforeDelete">>), <<"Map", "DeleteFromWorld">>)
    IN SendPacket(DetachPlayer(i), "SMSG_LOGOUT_COMPLETE")

\* The teardown of an attached player, lines 604-793.  The player is not in a far
\* teleport, dead or in a battleground: those branches only call into the player.
LogoutAttached(s, t, pl) ==
    LET a == Emit(s, <<"SQL", "account.active_realm_id=0">>)
        b == IF pl.guild THEN Emit(a, <<"Guild", "GE_SIGNED_OFF">>) ELSE a
        d == LogoutPetAndSave(b)
        e == Emit(Emit(Emit(d, <<"CleanupChannels">>), <<"LFG", "Leave">>), <<"UninviteFromGroup">>)
        f == IF pl.group /\ e.m_Socket # 0 /\ ~IsClosed(e, e.m_Socket)
             THEN Emit(e, <<"RemoveFromGroup">>)
             ELSE IF pl.group THEN Emit(e, <<"Group", "UpdatePlayerOnlineStatus">>) ELSE e
        g == IF pl.social THEN Emit(f, <<"SendFriendStatus", "FRIEND_OFFLINE">>) ELSE f
        h == Emit(g, <<"Ticket", "OnPlayerOnlineState">>)
        k == LogoutRemoval(h)
    IN Emit(k, <<"SQL", "characters.online=0">>)

\* lines 795-800 with their mutation: the scheduled logout is left as it is
LogoutTailKeepsRequest(s, t) ==
    SetInCharSelection([s EXCEPT !.m_playerLogout = FALSE, !.m_playerRecentlyLogout = TRUE], t)
\* lines 795-800, the end of LogoutPlayer with and without a player
LogoutTail(s, t) ==
    LogoutRequest(SetInCharSelection([s EXCEPT !.m_playerLogout = FALSE,
                                               !.m_playerRecentlyLogout = TRUE], t), 0, TRUE)

\* LogoutPlayer with its mutation: the teardown is not guarded by if (_player)
LogoutPlayerUnguarded(s, t, pl) ==
    LogoutTail(LogoutAttached(Emit([s EXCEPT !.m_playerLogout = TRUE], <<"LogoutPlayer">>), t, pl), t)

\* LogoutPlayer, lines 596-801; the trace starts with the call itself
LogoutPlayer(s, t, pl) ==
    LET s1 == Emit([s EXCEPT !.m_playerLogout = TRUE], <<"LogoutPlayer">>)
        s2 == IF s1._player # 0 THEN LogoutAttached(s1, t, pl) ELSE s1
    IN LogoutTail(s2, t)

KickPlayer(s, t, save, inPlace, pl) ==
    LET s1 == [s EXCEPT !.m_playerSave = save]
    IN IF inPlace THEN LogoutPlayer(s1, t, pl)
       ELSE LogoutRequest(s1, t - KickBackdate, FALSE)

\* the destructor with its mutation: an attached player is not logged out
DestructorNoLogout(s, t, pl) ==
    LET s0 == Emit(s, <<"~WorldSession">>)
    IN IF s0.m_Socket # 0
       THEN FinalizeSession(IF ~IsClosed(s0, s0.m_Socket) THEN SocketClose(s0, s0.m_Socket) ELSE s0,
                            s0.m_Socket)
       ELSE s0

\* WorldSession::~WorldSession, lines 109-124; the trace starts with the call itself
Destructor(s, t, pl) ==
    LET s0 == Emit(s, <<"~WorldSession">>)
        s1 == IF s0._player # 0 THEN LogoutPlayer(s0, t, pl) ELSE s0
    IN IF s1.m_Socket # 0
       THEN FinalizeSession(IF ~IsClosed(s1, s1.m_Socket) THEN SocketClose(s1, s1.m_Socket) ELSE s1,
                            s1.m_Socket)
       ELSE s1

\* ObjectAccessor::KickPlayer(guid), the body of the callback posted at line 338:
\* the player of that guid, if it still exists, has its session kicked
ObjectAccessorKickPlayer(s, t, guid) ==
    IF s._player # 0 /\ s._player = guid
    THEN KickPlayer(s, t, FALSE, FALSE, CHOOSE pl \in PlayerKinds : TRUE)
    ELSE s

RECURSIVE RunMessages(_, _, _)
RunMessages(s, t, messages) ==
    IF messages = <<>> THEN s
    ELSE RunMessages(ObjectAccessorKickPlayer(Emit(s, <<"callback", Head(messages)>>), t,
                                              Head(messages)),
                     t, Tail(messages))

\* GetMessager().Execute(this), line 348: the posted callbacks run in order and
\* leave the queue
MessagerExecute(s, t) == RunMessages([s EXCEPT !.messager = <<>>], t, s.messager)

\* lines 486-487 with their mutation: the pending slot is not emptied
PromoteSocketKeepPending(s) == [s EXCEPT !.m_Socket = s.m_requestSocket]
\* lines 486-487: the pending socket becomes the active one
PromoteSocket(s) == [s EXCEPT !.m_Socket = s.m_requestSocket, !.m_requestSocket = 0]

\* lines 493-496 with their mutation: the queue flag is not looked at
AuthReplyAlwaysOk(s) == SendAuthOk(s)
\* lines 493-496: the reply of a session that has no pending socket
AuthReply(s) == IF s.m_inQueue THEN SendAuthQueued(s) ELSE SendAuthOk(s)

\* line 505 with its mutation: the test of READY (line 521), which passes a null socket
TransportGoneClosedOnly(s) == s.m_Socket # 0 /\ IsClosed(s, s.m_Socket)
\* line 505: !m_Socket || (m_Socket && m_Socket->IsClosed())
TransportGone(s) == s.m_Socket = 0 \/ (s.m_Socket # 0 /\ IsClosed(s, s.m_Socket))

\* lines 539-541 with their mutation: the session is given up without the logout
OfflineExpiredNoLogout(s, t, pl) ==
    IF s.m_requestSocket = 0 /\ (s.m_Socket = 0 \/ IsClosed(s, s.m_Socket))
    THEN [s |-> s, ret |-> FALSE]
    ELSE [s |-> s, ret |-> TRUE]
\* lines 539-541: the disconnect deadline of an offline session has passed
OfflineExpired(s, t, pl) ==
    LET s1 == LogoutPlayer(s, t, pl)
    IN IF s1.m_requestSocket = 0 /\ (s1.m_Socket = 0 \/ IsClosed(s1, s1.m_Socket))
       THEN [s |-> s1, ret |-> FALSE]
       ELSE [s |-> s1, ret |-> TRUE]

\* The switch on m_sessionState that ends Update, with what Update returns
StateMachine(s, t, pl) ==
    CASE s.m_sessionState = STATE_CREATED ->
            LET s1 == IF s.m_requestSocket # 0
                      THEN LET o == IF ~IsOffline(s) THEN SetOffline(s, t) ELSE s
                           IN SendAuthOk(PromoteSocket(o))
                      ELSE AuthReply(s)
            IN [s |-> SetInCharSelection(s1, t), ret |-> TRUE]
      [] s.m_sessionState = STATE_CHAR_SELECTION ->
            IF TransportGone(s)
            THEN [s |-> s, ret |-> FALSE]
            ELSE LET s1 == IF ShouldLogOut(s, t) /\ ~s.m_playerLoading
                           THEN LogoutPlayer(s, t, pl) ELSE s
                     s2 == IF s1.m_kickTime # 0 /\ s1.m_kickTime <= t
                           THEN KickPlayer(s1, t, TRUE, FALSE, pl) ELSE s1
                 IN [s |-> s2, ret |-> TRUE]
      [] s.m_sessionState = STATE_READY ->
            IF s.m_Socket # 0 /\ IsClosed(s, s.m_Socket)
            THEN IF s._player = 0 THEN [s |-> s, ret |-> FALSE]
                 ELSE [s |-> SetOffline(s, t), ret |-> TRUE]
            ELSE IF ShouldLogOut(s, t) /\ ~s.m_playerLoading
                 THEN [s |-> LogoutPlayer(s, t, pl), ret |-> TRUE]
                 ELSE [s |-> s, ret |-> TRUE]
      [] s.m_sessionState = STATE_OFFLINE ->
            IF ShouldDisconnect(s, t)
            THEN OfflineExpired(s, t, pl)
            ELSE [s |-> s, ret |-> TRUE]

\* RequestNewSocket takes m_recvQueueLock, which Update does not hold in its
\* switch, so the network thread can run it between two statements of the tick
\* thread.  Here it lands after the switch has read m_sessionState and before the
\* last write of m_sessionState by the branch taken: before line 795 in
\* LogoutPlayer, before line 146 in SetOffline, before line 497 in CREATED.
LogoutPlayerRaced(s, t, pl, socket) ==
    LET s1 == Emit([s EXCEPT !.m_playerLogout = TRUE], <<"LogoutPlayer">>)
        s2 == IF s1._player # 0 THEN LogoutAttached(s1, t, pl) ELSE s1
    IN LogoutTail(RequestNewSocket(s2, socket), t)

SetOfflineRaced(s, t, socket) ==
    [RequestNewSocket(SetOffline(s, t), socket) EXCEPT !.m_sessionState = OfflineState]

\* the branches of the switch that write m_sessionState
RaceWindow(s, t) ==
    CASE s.m_sessionState = STATE_CREATED -> TRUE
      [] s.m_sessionState = STATE_CHAR_SELECTION ->
            ~TransportGone(s) /\ ShouldLogOut(s, t) /\ ~s.m_playerLoading
      [] s.m_sessionState = STATE_READY ->
            IF s.m_Socket # 0 /\ IsClosed(s, s.m_Socket) THEN s._player # 0
            ELSE ShouldLogOut(s, t) /\ ~s.m_playerLoading
      [] s.m_sessionState = STATE_OFFLINE -> ShouldDisconnect(s, t)

\* the switch of a session in RaceWindow with the call landing inside it
StateMachineRaced(s, t, pl, socket) ==
    CASE s.m_sessionState = STATE_CREATED ->
            LET s1 == IF s.m_requestSocket # 0
                      THEN LET o == IF ~IsOffline(s) THEN SetOffline(s, t) ELSE s
                           IN SendAuthOk(PromoteSocket(o))
                      ELSE AuthReply(s)
            IN [s |-> SetInCharSelection(RequestNewSocket(s1, socket), t), ret |-> TRUE]
      [] s.m_sessionState = STATE_CHAR_SELECTION ->
            LET s1 == LogoutPlayerRaced(s, t, pl, socket)
                s2 == IF s1.m_kickTime # 0 /\ s1.m_kickTime <= t
                      THEN KickPlayer(s1, t, TRUE, FALSE, pl) ELSE s1
            IN [s |-> s2, ret |-> TRUE]
      [] s.m_sessionState = STATE_READY ->
            IF s.m_Socket # 0 /\ IsClosed(s, s.m_Socket)
            THEN [s |-> SetOfflineRaced(s, t, socket), ret |-> TRUE]
            ELSE [s |-> LogoutPlayerRaced(s, t, pl, socket), ret |-> TRUE]
      [] s.m_sessionState = STATE_OFFLINE ->
            LET s1 == LogoutPlayerRaced(s, t, pl, socket)
            IN IF s1.m_requestSocket = 0 /\ (s1.m_Socket = 0 \/ IsClosed(s1, s1.m_Socket))
               THEN [s |-> s1, ret |-> FALSE]
               ELSE [s |-> s1, ret |-> TRUE]

----------------------------------------------------------------------------
(* Initial state: the constructor, lines 100-106 *)

\* an entry of opcodeTable; voice marks CMSG_SET_ACTIVE_VOICE_CHANNEL
Opcode(processing, status) == [processing |-> processing, status |-> status, voice |-> FALSE]
VoiceOpcode == [processing |-> PROCESS_THREADUNSAFE, status |-> STATUS_AUTHED, voice |-> TRUE]

\* The opcode tables the session is run against: each holds a few entries, and
\* together they hold every admission status on every path that can deliver it.
OpcodeTables ==
    { {Opcode(PROCESS_THREADUNSAFE, STATUS_LOGGEDIN), Opcode(PROCESS_MAP_THREAD, STATUS_LOGGEDIN)},
      {Opcode(PROCESS_INPLACE, STATUS_AUTHED), Opcode(PROCESS_INPLACE, STATUS_LOGGEDIN_OR_RECENTLY_LOGGEDOUT)},
      {VoiceOpcode, Opcode(PROCESS_THREADUNSAFE, STATUS_LOGGEDIN_OR_RECENTLY_LOGGEDOUT)},
      {Opcode(PROCESS_THREADUNSAFE, STATUS_TRANSFER), Opcode(PROCESS_MAP_THREAD, STATUS_TRANSFER)},
      {Opcode(PROCESS_IMMEDIATE, STATUS_AUTHED), Opcode(PROCESS_MAP_THREAD, STATUS_AUTHED)},
      {Opcode(PROCESS_INPLACE, STATUS_NEVER), Opcode(PROCESS_IMMEDIATE, STATUS_NEVER)},
      {Opcode(PROCESS_THREADUNSAFE, STATUS_UNHANDLED), Opcode(PROCESS_IMMEDIATE, STATUS_UNHANDLED)} }

InitSession ==
    /\ m_sessionState = STATE_CREATED
    /\ _player = 0
    /\ m_GUIDLow = 0
    /\ inWorld = FALSE
    /\ m_Socket \in {0, 1}
    /\ m_requestSocket = 0
    /\ closed = {}
    /\ finalized = [k \in 1..MaxSockets |-> 0]
    /\ nextSocket = 1
    /\ now = StartTime
    /\ ticks = 0
    /\ _logoutTime = 0
    /\ m_kickTime = 0
    /\ m_inQueue = FALSE
    /\ m_playerLoading = FALSE
    /\ m_playerLogout = FALSE
    /\ m_playerRecentlyLogout = FALSE
    /\ m_playerSave = TRUE
    /\ canDelayTeleport = FALSE
    /\ hasDelayedTeleport = FALSE
    /\ messager = <<>>
    /\ m_recvQueue = <<>>
    /\ m_recvQueueMap = <<>>
    /\ m_recvQueueLock = "free"
    /\ m_recvQueueMapLock = "free"
    /\ opcodeCounter = 0
    /\ upc = "idle"
    /\ recvQueueCopy = <<>>
    /\ ucur = NoPacket
    /\ result = "none"
    /\ mpc = "idle"
    /\ recvQueueMapCopy = <<>>
    /\ mi = 0
    /\ mcur = NoPacket
    /\ handled = [generic |-> <<>>, map |-> <<>>]
    /\ trace = <<>>

----------------------------------------------------------------------------
(* The network thread *)

\* the session object exists: nothing is called on it after its destructor,
\* and the process runs
Alive == upc \notin {"destroyed", "crashed"}

\* the scope of a std::lock_guard ends with its block: the mutex is released
LockGuardRelease(holder) == "free"

\* the block around the swap (lines 351-354, 569-572) with its mutation: the guard
\* lives in the scope of the whole function
SwapGuardHeld(holder) == holder
SwapGuardRelease(holder) == "free"

\* push_back (lines 276, 281) and its mutation
PushFront(queue, packet) == <<packet>> \o queue
PushBack(queue, packet) == Append(queue, packet)

\* line 273 with its mutation: every queued envelope goes to the generic queue
QueueOfGenericOnly(processing) == "generic"
\* line 273: the queue of an opcode that is not PROCESS_IMMEDIATE
QueueOf(processing) == IF processing = PROCESS_MAP_THREAD THEN "map" ELSE "generic"

\* QueuePacket, lines 261-283
QueuePacket(op) ==
    LET packet == [id |-> opcodeCounter + 1, processing |-> op.processing,
                   status |-> op.status, voice |-> op.voice]
    IN /\ Alive
       /\ opcodeCounter < MaxPackets
       /\ opcodeCounter' = opcodeCounter + 1
       /\ IF op.processing = PROCESS_IMMEDIATE
          THEN /\ trace' = <<<<"handler", packet>>>>
               /\ UNCHANGED <<m_recvQueue, m_recvQueueMap, m_recvQueueLock, m_recvQueueMapLock>>
          ELSE IF QueueOf(op.processing) = "map"
          THEN /\ m_recvQueueMapLock = "free"
               /\ m_recvQueueMap' = PushBack(m_recvQueueMap, packet)
               /\ m_recvQueueMapLock' = LockGuardRelease("net")
               /\ trace' = <<>>
               /\ UNCHANGED <<m_recvQueue, m_recvQueueLock>>
          ELSE /\ m_recvQueueLock = "free"
               /\ m_recvQueue' = PushBack(m_recvQueue, packet)
               /\ m_recvQueueLock' = LockGuardRelease("net")
               /\ trace' = <<>>
               /\ UNCHANGED <<m_recvQueueMap, m_recvQueueMapLock>>
       /\ UNCHANGED <<sessionVars, worldVars, mapVars, envVars, handled>>

QueuePacketAny == \E op \in opcodeTable : QueuePacket(op)

\* the value RequestNewSocket returns: false at line 168, true at line 172
RequestNewSocketAccepts(s) == s.m_requestSocket = 0

\* RequestNewSocket, lines 164-173, called with a socket the network layer just opened
RequestNewSocketCall ==
    /\ Alive
    /\ nextSocket < MaxSockets
    /\ m_recvQueueLock = "free"
    /\ nextSocket' = nextSocket + 1
    /\ Install(RequestNewSocket(Session, nextSocket + 1))
    /\ m_recvQueueLock' = LockGuardRelease("net")
    /\ UNCHANGED <<m_recvQueue, m_recvQueueMap, m_recvQueueMapLock, opcodeCounter,
                   worldVars, mapVars, opcodeTable, kickOnBadPacket, now, ticks, handled>>

\* the sockets the session has never held
NeverHeld ==
    {sock \in 1..MaxSockets : /\ sock \notin {m_Socket, m_requestSocket}
                              /\ sock \notin closed
                              /\ finalized[sock] = 0}

\* the socket the network layer offers: the next new one, or, while one is
\* pending, one the session has never held (a refused socket stays with the caller)
OfferedSockets ==
    IF m_requestSocket = 0
    THEN {sock \in {nextSocket + 1} : sock <= MaxSockets}
    ELSE {sock \in NeverHeld : \A other \in NeverHeld : sock <= other}

\* RequestNewSocket, lines 164-173, with the value it returns to the network layer
RequestNewSocketOffer ==
    /\ Alive
    /\ m_recvQueueLock = "free"
    /\ \E socket \in OfferedSockets :
          /\ nextSocket' = IF RequestNewSocketAccepts(Session) THEN nextSocket + 1
                           ELSE nextSocket
          /\ Install(Emit(RequestNewSocket(Session, socket),
                          <<"RequestNewSocket", socket, RequestNewSocketAccepts(Session)>>))
    /\ m_recvQueueLock' = LockGuardRelease("net")
    /\ UNCHANGED <<m_recvQueue, m_recvQueueMap, m_recvQueueMapLock, opcodeCounter,
                   worldVars, mapVars, opcodeTable, kickOnBadPacket, now, ticks, handled>>

\* the peer or the network layer closes a socket the session refers to
SocketClosed ==
    /\ Alive
    /\ \E sock \in ({m_Socket, m_requestSocket} \ {0}) \ closed :
          closed' = closed \cup {sock}
    /\ trace' = <<>>
    /\ UNCHANGED <<m_sessionState, _player, m_GUIDLow, inWorld, m_Socket, m_requestSocket,
                   finalized, _logoutTime, m_kickTime, m_inQueue, m_playerLoading,
                   m_playerLogout, m_playerRecentlyLogout, m_playerSave, canDelayTeleport,
                   hasDelayedTeleport, messager,
                   queueVars, worldVars, mapVars, envVars, handled>>

\* time(nullptr) moves on while the session lives
ClockDeltas == {LogoutDelay, KickDelay}
Tick ==
    /\ Alive
    /\ ticks < MaxTicks
    /\ ticks' = ticks + 1
    /\ \E d \in ClockDeltas : now' = now + d
    /\ trace' = <<>>
    /\ UNCHANGED <<sessionVars, queueVars, worldVars, mapVars, opcodeTable, kickOnBadPacket,
                   nextSocket, handled>>

----------------------------------------------------------------------------
(* The world tick: Update, lines 346-551 *)

SocketOpen(s) == s.m_Socket # 0 /\ ~IsClosed(s, s.m_Socket)

LogUnexpectedOpcode(s, packet, reason) == Emit(s, <<"LogUnexpectedOpcode", packet.id, reason>>)

\* line 373 with its mutation: the warning ignores m_playerRecentlyLogout
LoggedInWarnsAlways(s) == TRUE
\* line 373: no player, and the warning is for a session that did not just log out
LoggedInWarns(s) == ~s.m_playerRecentlyLogout

\* line 392 with its mutation: the test ignores m_playerRecentlyLogout
RecentlyLoggedOutRejectsNoPlayer(s) == s._player = 0
\* line 392: !_player && !m_playerRecentlyLogout
RecentlyLoggedOutRejects(s) == s._player = 0 /\ ~s.m_playerRecentlyLogout

\* line 403 with its mutation: the in-world test never holds
StillInWorldNever(s) == FALSE
\* line 403: _player->IsInWorld()
StillInWorld(s) == s.inWorld

\* line 418 with its mutation: no opcode is exempt
KeepsRecentlyLogoutNever(packet) == FALSE
\* line 418: CMSG_SET_ACTIVE_VOICE_CHANNEL leaves m_playerRecentlyLogout alone
KeepsRecentlyLogout(packet) == packet.voice

\* The switch on opHandle.status, lines 368-438: the session after the checks and
\* whether ExecuteOpcode is called
Admission(s, packet) ==
    CASE packet.status = STATUS_LOGGEDIN ->
            IF s._player = 0
            THEN [s |-> IF LoggedInWarns(s)
                        THEN LogUnexpectedOpcode(s, packet, "the player has not logged in yet")
                        ELSE s,
                  execute |-> FALSE]
            ELSE [s |-> s, execute |-> s.inWorld]
      [] packet.status = STATUS_LOGGEDIN_OR_RECENTLY_LOGGEDOUT ->
            IF RecentlyLoggedOutRejects(s)
            THEN [s |-> LogUnexpectedOpcode(s, packet,
                            "the player has not logged in yet and not recently logout"),
                  execute |-> FALSE]
            ELSE [s |-> s, execute |-> TRUE]
      [] packet.status = STATUS_TRANSFER ->
            IF s._player = 0
            THEN [s |-> LogUnexpectedOpcode(s, packet, "the player has not logged in yet"),
                  execute |-> FALSE]
            ELSE IF StillInWorld(s)
            THEN [s |-> LogUnexpectedOpcode(s, packet, "the player is still in world"),
                  execute |-> FALSE]
            ELSE [s |-> s, execute |-> TRUE]
      [] packet.status = STATUS_AUTHED ->
            IF s.m_inQueue
            THEN [s |-> LogUnexpectedOpcode(s, packet, "the player not pass queue yet"),
                  execute |-> FALSE]
            ELSE [s |-> IF ~KeepsRecentlyLogout(packet)
                        THEN [s EXCEPT !.m_playerRecentlyLogout = FALSE]
                        ELSE s,
                  execute |-> TRUE]
      [] packet.status = STATUS_NEVER ->
            [s |-> Emit(s, <<"outError", packet.id, "received not allowed opcode">>),
             execute |-> FALSE]
      [] packet.status = STATUS_UNHANDLED ->
            [s |-> Emit(s, <<"DEBUG_LOG", packet.id, "received not handled opcode">>),
             execute |-> FALSE]
      [] OTHER ->
            [s |-> Emit(s, <<"outError", packet.id, "received wrong-status-req opcode">>),
             execute |-> FALSE]

\* ExecuteOpcode up to the call of the handler, lines 1312-1319
ExecuteOpcodeEnter(s, packet) ==
    Emit(IF s._player # 0 THEN [s EXCEPT !.canDelayTeleport = TRUE] ELSE s, <<"handler", packet>>)

\* ExecuteOpcode after the handler returned, lines 1321-1330
ExecuteOpcodeLeave(s) ==
    IF s._player # 0
    THEN LET s1 == [s EXCEPT !.canDelayTeleport = FALSE]
         IN IF s1.hasDelayedTeleport
            THEN Emit([s1 EXCEPT !.hasDelayedTeleport = FALSE], <<"TeleportTo", "performed">>)
            ELSE s1
    ELSE s

\* what a handler may do to the caller: return, or throw ByteBufferException
HandlerOutcomes == {"return", "ByteBufferException"}

\* _player->GetObjectGuid() at line 337 with _player null is undefined: the read
\* faults and ends the process, or yields a value that is no player's guid
NullDerefOutcomes == {"SIGSEGV", "garbage"}
GarbageGuid == 0

\* line 338 with its mutation: the kick is made in place instead of posted
PostKickInline(s, t, guid) == ObjectAccessorKickPlayer(s, t, guid)
\* line 338: GetMessager().AddMessage of a callback that captures the guid
PostKick(s, t, guid) == [s EXCEPT !.messager = Append(@, guid)]

\* ProcessByteBufferException, lines 323-343, where line 337 yields a guid
ProcessByteBufferException(s, t, packet, kick) ==
    LET s1 == Emit(s, <<"outError", packet.id, "ByteBufferException">>)
    IN IF kick
       THEN PostKick(Emit(s1, <<"DETAIL_LOG", packet.id, "Disconnecting session">>), t,
                     IF s._player # 0 THEN s._player ELSE GarbageGuid)
       ELSE s1

\* the catch block faults at line 337: the log lines are out, then the process ends
FaultsAtNullPlayer(s, outcome, kick, ub) ==
    outcome = "ByteBufferException" /\ kick /\ s._player = 0 /\ ub = "SIGSEGV"

Crashed(s, packet) ==
    Emit(Emit(Emit(s, <<"outError", packet.id, "ByteBufferException">>),
              <<"DETAIL_LOG", packet.id, "Disconnecting session">>), <<"SIGSEGV">>)

\* the rest of ExecuteOpcode, or the catch block of the drain
HandlerLeave(s, t, packet, outcome, kick) ==
    IF outcome = "ByteBufferException" THEN ProcessByteBufferException(s, t, packet, kick)
    ELSE ExecuteOpcodeLeave(s)

\* lines 346-354: the deferred callbacks, then the swap under m_recvQueueLock
UpdateBegin ==
    /\ upc = "idle"
    /\ m_recvQueueLock = "free"
    /\ Install(MessagerExecute(Session, now))
    /\ recvQueueCopy' = m_recvQueue
    /\ m_recvQueue' = <<>>
    /\ m_recvQueueLock' = SwapGuardRelease("world")
    /\ upc' = "drain"
    /\ result' = "none"
    /\ UNCHANGED <<m_recvQueueMap, m_recvQueueMapLock, opcodeCounter, ucur,
                   mapVars, envVars, handled>>

\* one pass of the while loop up to the handler call, lines 358-438
UpdateDispatch ==
    /\ upc = "drain"
    /\ SocketOpen(Session)
    /\ recvQueueCopy # <<>>
    /\ LET packet == Head(recvQueueCopy)
           a == Admission(Session, packet)
       IN /\ recvQueueCopy' = Tail(recvQueueCopy)
          /\ IF a.execute
             THEN /\ Install(ExecuteOpcodeEnter(a.s, packet))
                  /\ upc' = "handler"
                  /\ ucur' = packet
                  /\ handled' = [handled EXCEPT !.generic = Append(@, packet.id)]
             ELSE /\ Install(a.s)
                  /\ UNCHANGED <<upc, ucur, handled>>
    /\ UNCHANGED <<queueVars, result, mapVars, envVars>>

\* the handler called from the drain comes back
UpdateHandlerDone ==
    /\ upc = "handler"
    /\ \E outcome \in HandlerOutcomes, ub \in NullDerefOutcomes :
          IF FaultsAtNullPlayer(Session, outcome, kickOnBadPacket, ub)
          THEN /\ Install(Crashed(Session, ucur))
               /\ upc' = "crashed"
               /\ mpc' = "crashed"
               /\ UNCHANGED <<ucur, recvQueueMapCopy, mi, mcur>>
          ELSE /\ Install(HandlerLeave(Session, now, ucur, outcome, kickOnBadPacket))
               /\ upc' = "drain"
               /\ ucur' = NoPacket
               /\ UNCHANGED mapVars
    /\ UNCHANGED <<queueVars, recvQueueCopy, result, envVars, handled>>

\* the loop is left; the switch on m_sessionState decides what Update returns
UpdateFinish ==
    /\ upc = "drain"
    /\ ~(SocketOpen(Session) /\ recvQueueCopy # <<>>)
    /\ \E pl \in PlayerKinds :
          LET r == StateMachine(Session, now, pl)
          IN /\ Install(r.s)
             /\ result' = IF r.ret THEN "keep" ELSE "remove"
    /\ recvQueueCopy' = <<>>
    /\ upc' = "idle"
    /\ UNCHANGED <<queueVars, ucur, mapVars, envVars, handled>>

\* the same with RequestNewSocket run by the network thread inside the switch
UpdateFinishRaced ==
    /\ upc = "drain"
    /\ ~(SocketOpen(Session) /\ recvQueueCopy # <<>>)
    /\ RaceWindow(Session, now)
    /\ nextSocket < MaxSockets
    /\ m_recvQueueLock = "free"
    /\ nextSocket' = nextSocket + 1
    /\ \E pl \in PlayerKinds :
          LET r == StateMachineRaced(Session, now, pl, nextSocket + 1)
          IN /\ Install(r.s)
             /\ result' = IF r.ret THEN "keep" ELSE "remove"
    /\ recvQueueCopy' = <<>>
    /\ upc' = "idle"
    /\ UNCHANGED <<queueVars, ucur, mapVars, opcodeTable, kickOnBadPacket, now, ticks, handled>>

----------------------------------------------------------------------------
(* The map tick: UpdateMap, lines 566-593 *)

UpdateMapBegin ==
    /\ Alive
    /\ mpc = "idle"
    /\ m_recvQueueMapLock = "free"
    /\ recvQueueMapCopy' = m_recvQueueMap
    /\ m_recvQueueMap' = <<>>
    /\ m_recvQueueMapLock' = SwapGuardRelease("map")
    /\ mi' = 0
    /\ mpc' = "loop"
    /\ trace' = <<>>
    /\ UNCHANGED <<sessionVars, m_recvQueue, m_recvQueueLock, opcodeCounter, mcur,
                   worldVars, envVars, handled>>

\* the condition of the for loop, line 574
UpdateMapContinue(s, i, copy) == SocketOpen(s) /\ i < Len(copy)

\* line 583 with its mutation: every status is passed on
MapAdmitsAny(packet) == TRUE
\* line 583: opHandle.status == STATUS_LOGGEDIN
MapAdmits(packet) == packet.status = STATUS_LOGGEDIN

\* one pass of the for loop up to the handler call; ++i closes the pass
UpdateMapDispatch ==
    /\ mpc = "loop"
    /\ UpdateMapContinue(Session, mi, recvQueueMapCopy)
    /\ LET packet == Head(recvQueueMapCopy)
       IN /\ recvQueueMapCopy' = Tail(recvQueueMapCopy)
          /\ mi' = mi + 1
          /\ IF MapAdmits(packet)
             THEN /\ Install(ExecuteOpcodeEnter(Session, packet))
                  /\ mpc' = "handler"
                  /\ mcur' = packet
                  /\ handled' = [handled EXCEPT !.map = Append(@, packet.id)]
             ELSE /\ Install(Session)
                  /\ UNCHANGED <<mpc, mcur, handled>>
    /\ UNCHANGED <<queueVars, worldVars, envVars>>

UpdateMapHandlerDone ==
    /\ mpc = "handler"
    /\ \E outcome \in HandlerOutcomes, ub \in NullDerefOutcomes :
          IF FaultsAtNullPlayer(Session, outcome, kickOnBadPacket, ub)
          THEN /\ Install(Crashed(Session, mcur))
               /\ upc' = "crashed"
               /\ mpc' = "crashed"
               /\ UNCHANGED <<mcur, recvQueueCopy, ucur, result>>
          ELSE /\ Install(HandlerLeave(Session, now, mcur, outcome, kickOnBadPacket))
               /\ mpc' = "loop"
               /\ mcur' = NoPacket
               /\ UNCHANGED worldVars
    /\ UNCHANGED <<queueVars, recvQueueMapCopy, mi, envVars, handled>>

\* the loop is left and the rest of the local copy is destroyed with it
UpdateMapFinish ==
    /\ mpc = "loop"
    /\ ~UpdateMapContinue(Session, mi, recvQueueMapCopy)
    /\ recvQueueMapCopy' = <<>>
    /\ mi' = 0
    /\ mpc' = "idle"
    /\ trace' = <<>>
    /\ UNCHANGED <<sessionVars, queueVars, mcur, worldVars, envVars, handled>>

----------------------------------------------------------------------------
(* Calls made on the session from the world thread between two Update calls *)

OnlySession == UNCHANGED <<queueVars, worldVars, mapVars, envVars, handled>>

\* character enter: a player object is created and attached
SetPlayerCall ==
    /\ upc = "idle"
    /\ _player = 0
    /\ Install(SetPlayer(Session, PlayerGuid, PlayerGuid))
    /\ OnlySession

\* the attached player is added to, or taken off, its map (a far teleport)
SetInWorld ==
    /\ upc = "idle"
    /\ _player # 0
    /\ Install([Session EXCEPT !.inWorld = ~inWorld])
    /\ OnlySession

SetOnlineCall ==
    /\ upc = "idle"
    /\ Install(SetOnline(Session))
    /\ OnlySession

SetInQueueCall ==
    /\ upc = "idle"
    /\ Install([Session EXCEPT !.m_inQueue = ~m_inQueue])
    /\ OnlySession

SetPlayerLoading ==
    /\ upc = "idle"
    /\ Install([Session EXCEPT !.m_playerLoading = ~m_playerLoading])
    /\ OnlySession

LogoutRequestCall ==
    /\ upc = "idle"
    /\ Install(LogoutRequest(Session, now, TRUE))
    /\ OnlySession

KickPlayerCall ==
    /\ upc = "idle"
    /\ \E save \in BOOLEAN, inPlace \in BOOLEAN, pl \in PlayerKinds :
          Install(KickPlayer(Session, now, save, inPlace, pl))
    /\ OnlySession

LogoutPlayerCall ==
    /\ upc = "idle"
    /\ \E pl \in PlayerKinds : Install(LogoutPlayer(Session, now, pl))
    /\ OnlySession

\* the owner deletes the session between two ticks, no map tick being inside it
Destroy ==
    /\ upc = "idle"
    /\ mpc = "idle"
    /\ \E pl \in PlayerKinds : Install(Destructor(Session, now, pl))
    /\ upc' = "destroyed"
    /\ UNCHANGED <<queueVars, recvQueueCopy, ucur, result, mapVars, envVars, handled>>

----------------------------------------------------------------------------
\* Dispatch: one of the opcode tables, packets from the network, both ticks, and
\* the calls that decide admission (player attach, in world, online, in queue, logout)
Init ==
    /\ opcodeTable \in OpcodeTables
    /\ kickOnBadPacket = FALSE
    /\ InitSession

Next ==
    \/ QueuePacketAny
    \/ SocketClosed
    \/ UpdateBegin
    \/ UpdateDispatch
    \/ UpdateHandlerDone
    \/ UpdateFinish
    \/ UpdateMapBegin
    \/ UpdateMapDispatch
    \/ UpdateMapHandlerDone
    \/ UpdateMapFinish
    \/ SetPlayerCall
    \/ SetInWorld
    \/ SetOnlineCall
    \/ SetInQueueCall
    \/ LogoutPlayerCall

Spec == Init /\ [][Next]_vars

\* Faults: the dispatch of the tables whose handlers can run, with the kick on a
\* badly formatted packet configured
FaultTables ==
    { {Opcode(PROCESS_THREADUNSAFE, STATUS_LOGGEDIN), Opcode(PROCESS_MAP_THREAD, STATUS_LOGGEDIN)},
      {Opcode(PROCESS_INPLACE, STATUS_AUTHED), Opcode(PROCESS_INPLACE, STATUS_LOGGEDIN_OR_RECENTLY_LOGGEDOUT)} }

InitFault ==
    /\ opcodeTable \in FaultTables
    /\ kickOnBadPacket = TRUE
    /\ InitSession

SpecFault == InitFault /\ [][Next]_vars

\* Player::TeleportTo called by a running handler for a far teleport: with
\* m_bCanDelayTeleport set it only records the destination and sets the
\* delayed-teleport flag, otherwise it relocates the player at once
TeleportTo(s) ==
    IF s.canDelayTeleport
    THEN Emit([s EXCEPT !.hasDelayedTeleport = TRUE], <<"TeleportTo", "delayed">>)
    ELSE Emit(s, <<"TeleportTo", "performed">>)

HandlerTeleportRequest ==
    /\ upc = "handler" \/ mpc = "handler"
    /\ _player # 0
    /\ ~hasDelayedTeleport
    /\ Install(TeleportTo(Session))
    /\ OnlySession

\* Teleports: LOGGEDIN opcodes on both queues, handlers that ask for a far teleport
TeleportTables ==
    { {Opcode(PROCESS_THREADUNSAFE, STATUS_LOGGEDIN), Opcode(PROCESS_MAP_THREAD, STATUS_LOGGEDIN)} }

InitTeleport ==
    /\ opcodeTable \in TeleportTables
    /\ kickOnBadPacket = FALSE
    /\ InitSession

NextTeleport ==
    \/ QueuePacketAny
    \/ UpdateBegin
    \/ UpdateDispatch
    \/ UpdateHandlerDone
    \/ UpdateFinish
    \/ UpdateMapBegin
    \/ UpdateMapDispatch
    \/ UpdateMapHandlerDone
    \/ UpdateMapFinish
    \/ SetPlayerCall
    \/ SetInWorld
    \/ HandlerTeleportRequest

SpecTeleport == InitTeleport /\ [][NextTeleport]_vars

\* Lifecycle: no packets arrive; sockets come and go, the clock moves, and every
\* call on the session is made between the ticks
InitLife ==
    /\ opcodeTable = {}
    /\ kickOnBadPacket = FALSE
    /\ InitSession

NextLife ==
    \/ RequestNewSocketCall
    \/ SocketClosed
    \/ Tick
    \/ UpdateBegin
    \/ UpdateFinish
    \/ SetPlayerCall
    \/ SetInWorld
    \/ SetOnlineCall
    \/ SetInQueueCall
    \/ SetPlayerLoading
    \/ LogoutRequestCall
    \/ KickPlayerCall
    \/ LogoutPlayerCall
    \/ Destroy

SpecLife == InitLife /\ [][NextLife]_vars

\* Reconnect: the lifecycle of a session whose tick is not atomic for the
\* network thread, with no call on the session from outside its own Update
\* but the player attach, the login and the logout request; the network layer
\* also offers a socket while one is pending and sees what the call returns
NextRace ==
    \/ RequestNewSocketOffer
    \/ SetOnlineCall
    \/ SocketClosed
    \/ Tick
    \/ UpdateBegin
    \/ UpdateFinish
    \/ UpdateFinishRaced
    \/ SetPlayerCall
    \/ SetInWorld
    \/ LogoutRequestCall

SpecRace == InitLife /\ [][NextRace]_vars

----------------------------------------------------------------------------
(* Properties *)

Events(tr) == {tr[k] : k \in 1..Len(tr)}
\* the handler invocations of the last step
HandlerCalls == {e \in Events(trace) : e[1] = "handler"}
\* the last step ran LogoutPlayer
LogoutPlayerRan == <<"LogoutPlayer">> \in Events(trace)
\* messages, persistence writes and collaborator calls, the call marker left out
Effects(tr) == SelectSeq(tr, LAMBDA e : e # <<"LogoutPlayer">>)
Increasing(seq) == \A i, j \in 1..Len(seq) : i < j => seq[i] < seq[j]

\* C1: within one queue, handlers are invoked in the order in which QueuePacket
\* received the envelopes (ids are given in submission order).
C1_HandlersInEnqueueOrder ==
    /\ Increasing(handled.generic)
    /\ Increasing(handled.map)

\* C1 witness: two envelopes of one queue were both passed to their handlers.
C1_Witness ==
    \/ Len(handled.generic) >= 2
    \/ Len(handled.map) >= 2

\* C2 (as claimed): when UpdateMap leaves its loop with the active transport still
\* present and open, no envelope of the swapped copy is left unexamined.
C2_MapDrainExaminesAll ==
    (mpc = "loop" /\ SocketOpen(Session) /\ ~UpdateMapContinue(Session, mi, recvQueueMapCopy))
        => recvQueueMapCopy = <<>>

\* C3 (as claimed): no LOGGEDIN envelope is passed to its handler while no player
\* is attached (the dispatch step does not change the player reference).
C3_LoggedInNeedsPlayer ==
    \A e \in HandlerCalls : e[2].status = STATUS_LOGGEDIN => _player # 0

\* C4 (as claimed): no AUTHED envelope is passed to its handler while the session
\* is flagged in queue, on any path.
C4_AuthedNeedsQueuePassed ==
    \A e \in HandlerCalls : e[2].status = STATUS_AUTHED => ~m_inQueue

C6_PlayerNeverInCreated ==
    _player # 0 => m_sessionState \in {STATE_READY, STATE_CHAR_SELECTION, STATE_OFFLINE}

\* C6 (amended): a session with a player attached enters CREATED only by an
\* accepted RequestNewSocket (the pending slot goes from empty to occupied).
C6_PlayerEntersCreatedByRequestOnly ==
    [][(_player' # 0 /\ m_sessionState' = STATE_CREATED /\ m_sessionState # STATE_CREATED)
            => (m_requestSocket = 0 /\ m_requestSocket' # 0)]_vars

\* C6 witness: a reconnect on a session that went offline with its player attached.
C6_Witness ==
    /\ _player # 0
    /\ m_sessionState = STATE_CREATED
    /\ m_requestSocket # 0
    /\ m_Socket = 0

\* C7: after a step that ran LogoutPlayer the player reference is null.
C7_LogoutClearsPlayer ==
    LogoutPlayerRan => _player = 0

\* C7 witness: LogoutPlayer ran the teardown of an attached player.
C7_Witness ==
    /\ LogoutPlayerRan
    /\ <<"SQL", "characters.online=0">> \in Events(trace)
    /\ _player = 0

\* C8: directly after a LogoutPlayer, at the same clock value, a second LogoutPlayer
\* leaves every session field as it is and produces no message, write or call.
C8_LogoutIdempotent ==
    LogoutPlayerRan =>
        \A pl \in PlayerKinds :
            LET again == LogoutPlayer(Session, now, pl)
            IN /\ [again EXCEPT !.out = <<>>] = Session
               /\ Effects(again.out) = <<>>

\* C8 witness: the first call tore an in-world player down and told the client.
C8_Witness ==
    /\ LogoutPlayerRan
    /\ <<"Map", "Remove">> \in Events(trace)
    /\ <<"SendPacket", "SMSG_LOGOUT_COMPLETE", m_Socket>> \in Events(trace)

\* C9: while a handler called from a drain is running, neither queue mutex is held,
\* and QueuePacket for every queued processing mode can run to its end.
C9_HandlerRunsUnlocked ==
    (upc = "handler" \/ mpc = "handler") =>
        /\ m_recvQueueLock = "free"
        /\ m_recvQueueMapLock = "free"
        /\ opcodeCounter < MaxPackets =>
              \A op \in opcodeTable : ENABLED QueuePacket(op)

\* C9 witness: a handler of the generic drain is running and an envelope that
\* arrived after the swap sits in the generic queue.
C9_Witness ==
    /\ upc = "handler"
    /\ m_recvQueue # <<>>
    /\ m_recvQueue[1].id > ucur.id

\* what C10 says of an Update that evaluates CREATED with a pending transport,
\* the auth-ok message left to authOk
CreatedTickWithPending(authOk) ==
    (upc = "drain" /\ upc' = "idle" /\ m_sessionState = STATE_CREATED /\ m_requestSocket # 0)
        => /\ m_Socket' = m_requestSocket
           /\ m_requestSocket' = 0
           /\ m_Socket # 0 => /\ m_Socket \in closed'
                              /\ finalized'[m_Socket] = finalized[m_Socket] + 1
           /\ m_Socket = 0 => finalized' = finalized
           /\ authOk
           /\ m_sessionState' = STATE_CHAR_SELECTION
           /\ m_kickTime' = now + KickDelay
           /\ result' = "keep"

AuthOkOnNewSocket ==
    <<"SendPacket", "SMSG_AUTH_RESPONSE:AUTH_OK", m_requestSocket>> \in Events(trace')

\* C10 (as claimed): the tick closes and finalizes the previous transport, promotes
\* the pending one, sends auth-ok on it, and ends in CHAR_SELECTION with the
\* deadline at now + 15 minutes, reporting "keep me".
C10_CreatedTickAsClaimed ==
    [][CreatedTickWithPending(AuthOkOnNewSocket)]_vars

\* C10 (amended): the same, auth-ok being sent exactly when the promoted transport
\* is still open.
C10_CreatedTickPromotes ==
    [][CreatedTickWithPending(AuthOkOnNewSocket <=> m_requestSocket \notin closed)]_vars

\* C10 witness: the tick finalized the previous transport and sent auth-ok on the
\* promoted one.
C10_Witness ==
    /\ upc = "idle" /\ result = "keep"
    /\ Events(trace) = {<<"FinalizeSession", 1>>, <<"SendPacket", "SMSG_AUTH_RESPONSE:AUTH_OK", 2>>}
    /\ m_Socket = 2
    /\ m_kickTime = now + KickDelay

\* a step in which Update evaluates the switch on m_sessionState and returns
StateMachineStep == upc = "drain" /\ upc' = "idle"

\* C11: an Update that evaluates READY with a player attached and the active
\* transport closed ends in OFFLINE, has told the friends that the player is
\* offline, has set the scheduled-logout timestamp to now, has not run
\* LogoutPlayer, leaves the player attached and reports "keep me".
C11_ReadyClosedGoesOffline ==
    [][(StateMachineStep /\ m_sessionState = STATE_READY /\ _player # 0
            /\ m_Socket # 0 /\ m_Socket \in closed)
        => /\ m_sessionState' = STATE_OFFLINE
           /\ <<"SendFriendStatus", "FRIEND_OFFLINE">> \in Events(trace')
           /\ _logoutTime' = now
           /\ <<"LogoutPlayer">> \notin Events(trace')
           /\ _player' = _player
           /\ result' = "keep"]_vars

\* C11 witness: the tick took a READY session offline with its player attached.
C11_Witness ==
    /\ upc = "idle" /\ result = "keep"
    /\ m_sessionState = STATE_OFFLINE
    /\ <<"SendFriendStatus", "FRIEND_OFFLINE">> \in Events(trace)
    /\ _player # 0
    /\ _logoutTime = now
    /\ m_Socket = 0

\* the disconnect deadline armed by the scheduled-logout timestamp has passed
GraceElapsed == _logoutTime > 0 /\ now >= _logoutTime + DisconnectDelay

\* C12: an Update that evaluates OFFLINE past the disconnect deadline with no
\* pending transport runs LogoutPlayer, leaves no player attached and reports
\* "remove me"; before the deadline it runs no logout, changes no session field
\* and reports "keep me".
C12_OfflineDeadline ==
    [][(StateMachineStep /\ m_sessionState = STATE_OFFLINE)
        => /\ (GraceElapsed /\ m_requestSocket = 0)
                => /\ <<"LogoutPlayer">> \in Events(trace')
                   /\ _player' = 0
                   /\ result' = "remove"
           /\ ~GraceElapsed
                => /\ trace' = <<>>
                   /\ UNCHANGED sessionVars
                   /\ result' = "keep"]_vars

\* C12 witness: the tick tore the player of an offline session down and asked
\* for the removal of the session.
C12_Witness ==
    /\ upc = "idle" /\ result = "remove"
    /\ LogoutPlayerRan
    /\ <<"SQL", "characters.online=0">> \in Events(trace)
    /\ _player = 0
    /\ m_Socket = 0 /\ m_requestSocket = 0

\* the last step tore an attached player down
TeardownRan == LogoutPlayerRan /\ <<"SQL", "characters.online=0">> \in Events(trace)

\* C13 (as claimed): after LogoutPlayer has torn an attached player down,
\* m_GUIDLow is still that player's identity, and a per-character SetAccountData
\* writes under it.
C13_GuidSurvivesLogout ==
    TeardownRan =>
        /\ m_GUIDLow = PlayerGuid
        /\ <<"SQL", "character_account_data", PlayerGuid>>
               \in Events(SetAccountData(Session, FALSE).out)

\* C14: the destructor leaves no player attached; with a player attached it runs
\* LogoutPlayer and the teardown, and with an active transport it closes it if
\* still open and finalizes it once, after the logout.
C14_DestructorLogsOut ==
    [][(upc # "destroyed" /\ upc' = "destroyed")
        => /\ _player' = 0
           /\ _player # 0
                => /\ <<"LogoutPlayer">> \in Events(trace')
                   /\ <<"SQL", "characters.online=0">> \in Events(trace')
           /\ m_Socket # 0
                => /\ m_Socket' = m_Socket
                   /\ m_Socket \in closed'
                   /\ finalized'[m_Socket] = finalized[m_Socket] + 1
                   /\ trace'[Len(trace')] = <<"FinalizeSession", m_Socket>>
           /\ m_Socket = 0 => finalized' = finalized]_vars

\* C14 witness: Update asked for the removal of a session with a player attached,
\* and the destructor logged the player out and finalized the transport.
C14_Witness ==
    /\ upc = "destroyed" /\ result = "remove"
    /\ <<"~WorldSession">> \in Events(trace)
    /\ TeardownRan
    /\ <<"FinalizeSession", m_Socket>> \in Events(trace)
    /\ _player = 0

\* what C16 says of an Update that evaluates CREATED, the message sent without a
\* pending transport left to reply
CreatedTick(reply) ==
    (StateMachineStep /\ m_sessionState = STATE_CREATED)
        => /\ m_sessionState' = STATE_CHAR_SELECTION
           /\ m_kickTime' = now + KickDelay
           /\ result' = "keep"
           /\ m_requestSocket = 0 => reply

AuthMessage == IF m_inQueue THEN "SMSG_AUTH_RESPONSE:AUTH_WAIT_QUEUE"
               ELSE "SMSG_AUTH_RESPONSE:AUTH_OK"

\* C16 (as claimed): the tick ends in CHAR_SELECTION with the deadline at now + 15
\* minutes and reports "keep me"; without a pending transport it sends auth-queued
\* if the session is in queue and auth-ok otherwise.
C16_CreatedTickAsClaimed ==
    [][CreatedTick(\E e \in Events(trace') : e[1] = "SendPacket" /\ e[2] = AuthMessage)]_vars

\* C16 (amended): the same, the message being sent exactly when the active
\* transport is present and open, and nothing being sent otherwise.
C16_CreatedTickLeavesCreated ==
    [][CreatedTick(IF SocketOpen(Session)
                   THEN trace' = <<<<"SendPacket", AuthMessage, m_Socket>>>>
                   ELSE trace' = <<>>)]_vars

\* C16 witness: a session flagged in queue was told to wait and moved to
\* CHAR_SELECTION.
C16_Witness ==
    /\ upc = "idle" /\ result = "keep"
    /\ trace = <<<<"SendPacket", "SMSG_AUTH_RESPONSE:AUTH_WAIT_QUEUE", m_Socket>>>>
    /\ m_sessionState = STATE_CHAR_SELECTION
    /\ m_kickTime = now + KickDelay

\* C17: an Update that evaluates CHAR_SELECTION with the active transport absent
\* or closed reports "remove me", calls nothing and changes no session field; with
\* a present, open transport it reports "keep me".
C17_CharSelectionRemoval ==
    [][(StateMachineStep /\ m_sessionState = STATE_CHAR_SELECTION)
        => IF m_Socket = 0 \/ m_Socket \in closed
           THEN /\ result' = "remove"
                /\ trace' = <<>>
                /\ UNCHANGED sessionVars
           ELSE result' = "keep"]_vars

\* C17 witness: a session without an active transport was reported for removal
\* from CHAR_SELECTION although its scheduled logout was due.
C17_Witness ==
    /\ upc = "idle" /\ result = "remove"
    /\ m_sessionState = STATE_CHAR_SELECTION
    /\ m_Socket = 0
    /\ _player # 0
    /\ _logoutTime > 0 /\ now >= _logoutTime + LogoutDelay

\* C18 (as claimed, in the form a finite run refutes): a tick that finds the
\* inactivity deadline of a CHAR_SELECTION session with an open transport elapsed
\* does not end with a later deadline armed, the same transport still open and
\* "keep me" reported (the session would then never be disconnected).
C18_KickDisconnects ==
    [][(StateMachineStep /\ m_sessionState = STATE_CHAR_SELECTION /\ SocketOpen(Session)
            /\ m_kickTime # 0 /\ m_kickTime <= now)
        => ~(/\ m_kickTime' > now
             /\ m_sessionState' = STATE_CHAR_SELECTION
             /\ m_Socket' = m_Socket /\ m_Socket \notin closed'
             /\ result' = "keep")]_vars

\* C15: a QueuePacket call counts the opcode once and routes by the processing
\* mode: PROCESS_IMMEDIATE runs the handler in the caller and leaves both queues as
\* they are; PROCESS_MAP_THREAD appends the envelope to the tail of the map queue
\* and leaves the generic queue; every other mode appends it to the tail of the
\* generic queue and leaves the map queue; no handler runs for a queued envelope.
C15_QueuePacketRoutes ==
    [][opcodeCounter' # opcodeCounter
        => /\ opcodeCounter' = opcodeCounter + 1
           /\ \E op \in opcodeTable :
                 LET packet == [id |-> opcodeCounter + 1, processing |-> op.processing,
                                status |-> op.status, voice |-> op.voice]
                 IN CASE op.processing = PROCESS_IMMEDIATE ->
                            /\ trace' = <<<<"handler", packet>>>>
                            /\ UNCHANGED <<m_recvQueue, m_recvQueueMap>>
                      [] op.processing = PROCESS_MAP_THREAD ->
                            /\ m_recvQueueMap' = Append(m_recvQueueMap, packet)
                            /\ trace' = <<>>
                            /\ UNCHANGED m_recvQueue
                      [] OTHER ->
                            /\ m_recvQueue' = Append(m_recvQueue, packet)
                            /\ trace' = <<>>
                            /\ UNCHANGED m_recvQueueMap]_vars

\* C15 witness: the last QueuePacket ran an immediate handler in the caller while
\* an earlier envelope waits in the map queue.
C15_Witness ==
    /\ \E e \in HandlerCalls : e[2].processing = PROCESS_IMMEDIATE /\ e[2].id = opcodeCounter
    /\ m_recvQueueMap # <<>>
    /\ m_recvQueue = <<>>
    /\ opcodeCounter >= 2

\* the ids of the envelopes whose framing fault the last step handled
FaultsHandled == {e[2] : e \in {f \in Events(trace) : f[1] = "outError" /\ f[3] = "ByteBufferException"}}
Ids(seq) == {seq[k] : k \in 1..Len(seq)}

\* C19 (as claimed): after the framing fault of an envelope has been handled, the
\* drain that called the handler is back in its loop (Update goes on to the next
\* envelope or to the state machine, UpdateMap to its loop condition).
C19_FaultKeepsDraining ==
    \A id \in FaultsHandled :
        IF id \in Ids(handled.generic)
        THEN upc = "drain" /\ ENABLED (UpdateDispatch \/ UpdateFinish)
        ELSE mpc = "loop" /\ ENABLED (UpdateMapDispatch \/ UpdateMapFinish)

\* a step in which a handler called from a drain comes back
HandlerDoneStep == (upc = "handler" /\ upc' # "handler") \/ (mpc = "handler" /\ mpc' # "handler")

\* C20 (as claimed): handling a framing fault with the kick configured leaves the
\* player reference, the state, the transports and the logout timestamp as they
\* are and ends with one more callback posted; and a posted callback runs only in
\* the step that starts an Update.
C20_KickOnlyPosted ==
    [][/\ (HandlerDoneStep /\ FaultsHandled' # {} /\ kickOnBadPacket)
            => /\ UNCHANGED <<_player, m_sessionState, m_Socket, m_requestSocket, closed, _logoutTime>>
               /\ Len(messager') = Len(messager) + 1
               /\ Alive'
       /\ (\E e \in Events(trace') : e[1] = "callback")
            => (upc = "idle" /\ upc' = "drain")]_vars

\* C21 (as claimed): no error path ends the process: in every session state in
\* which a handler can run, with or without a player attached and with the kick on
\* a bad packet configured, handling a framing fault leaves both ticks running and
\* makes no read through an absent player reference.
C21_NoErrorPathFaults ==
    /\ upc # "crashed"
    /\ mpc # "crashed"
    /\ <<"SIGSEGV">> \notin Events(trace)

\* a pass of the generic drain: Update takes the envelope at the head of its copy
DrainPass == upc = "drain" /\ upc' \in {"drain", "handler"}
             /\ recvQueueCopy # <<>> /\ recvQueueCopy' = Tail(recvQueueCopy)
\* the pass calls the handler of the envelope, or ends with exactly these log lines
PassExecutes == upc' = "handler" /\ ucur' = Head(recvQueueCopy)
                /\ trace' = <<<<"handler", Head(recvQueueCopy)>>>>
PassDrops(logged) == upc' = "drain" /\ handled' = handled /\ trace' = logged
PassWarns == \E reason \in {"the player has not logged in yet", "the player is still in world",
                            "the player has not logged in yet and not recently logout",
                            "the player not pass queue yet"} :
                 PassDrops(<<<<"LogUnexpectedOpcode", Head(recvQueueCopy).id, reason>>>>)

\* C22: in the generic drain an envelope of a TRANSFER opcode is passed to its
\* handler exactly when a player is attached and that player is not in the world;
\* with no player, or with the player in the world, it is dropped with a warning
\* and no handler runs.
C22_TransferAdmission ==
    [][(DrainPass /\ Head(recvQueueCopy).status = STATUS_TRANSFER)
         => IF _player # 0 /\ ~inWorld THEN PassExecutes ELSE PassWarns]_vars

\* C22 witness: a TRANSFER handler runs for a player that is attached and out of
\* the world, an earlier envelope having been passed to its handler too
C22_Witness ==
    /\ upc = "handler"
    /\ ucur.status = STATUS_TRANSFER
    /\ _player # 0
    /\ ~inWorld
    /\ Len(handled.generic) >= 2

\* C23: in the generic drain an envelope of a LOGGEDIN_OR_RECENTLY_LOGGEDOUT opcode
\* is passed to its handler exactly when a player is attached or the session has
\* just logged out; with no player and the flag clear it is dropped with a warning.
C23_RecentlyLoggedOutAdmission ==
    [][(DrainPass /\ Head(recvQueueCopy).status = STATUS_LOGGEDIN_OR_RECENTLY_LOGGEDOUT)
         => IF _player # 0 \/ m_playerRecentlyLogout THEN PassExecutes ELSE PassWarns]_vars

\* C23 witness: the handler runs with no player attached, on the flag alone
C23_Witness ==
    /\ upc = "handler"
    /\ ucur.status = STATUS_LOGGEDIN_OR_RECENTLY_LOGGEDOUT
    /\ _player = 0
    /\ m_playerRecentlyLogout

\* an envelope of a LOGGEDIN_OR_RECENTLY_LOGGEDOUT opcode that could come next
NextRecentlyLoggedOut ==
    [id |-> opcodeCounter + 1, processing |-> PROCESS_INPLACE,
     status |-> STATUS_LOGGEDIN_OR_RECENTLY_LOGGEDOUT, voice |-> FALSE]

\* C24: an envelope of an AUTHED opcode taken by the generic drain of a session that
\* has passed the queue is passed to its handler, and m_playerRecentlyLogout is
\* clear when the handler starts unless the opcode is the whitelisted voice opcode,
\* which leaves the flag as it is; so with no player attached the check of a
\* LOGGEDIN_OR_RECENTLY_LOGGEDOUT envelope that follows a non-whitelisted one rejects.
C24_AuthedClearsRecentlyLogout ==
    [][(DrainPass /\ Head(recvQueueCopy).status = STATUS_AUTHED /\ ~m_inQueue)
         => /\ PassExecutes
            /\ m_playerRecentlyLogout' = (Head(recvQueueCopy).voice /\ m_playerRecentlyLogout)
            /\ (~Head(recvQueueCopy).voice /\ _player = 0)
                 => ~Admission(Session', NextRecentlyLoggedOut).execute]_vars

\* C24 witness: the handler of the whitelisted opcode runs with the flag still set
C24_Witness ==
    /\ upc = "handler"
    /\ ucur.status = STATUS_AUTHED
    /\ ucur.voice
    /\ m_playerRecentlyLogout
    /\ _player = 0

\* C25 (as claimed): no envelope of a NEVER or of an UNHANDLED opcode is passed to
\* its handler, in any session state and on any of the three paths: the immediate
\* call of QueuePacket, the generic drain and the map drain.
C25_NeverUnhandledNotExecuted ==
    \A e \in HandlerCalls : e[2].status \notin {STATUS_NEVER, STATUS_UNHANDLED}

\* C26 (as claimed): in the generic drain an envelope of a LOGGEDIN opcode is passed
\* to its handler only when a player is attached and in the world; otherwise it is
\* dropped with a warning, or silently when the session has just logged out, both
\* with no player and with a player that is not in the world.
C26_LoggedInDropAsClaimed ==
    [][(DrainPass /\ Head(recvQueueCopy).status = STATUS_LOGGEDIN)
         => IF _player # 0 /\ inWorld THEN PassExecutes
            ELSE IF ~m_playerRecentlyLogout THEN PassWarns
            ELSE PassDrops(<<>>)]_vars

\* C26 (amended): it is passed to its handler exactly when a player is attached
\* and in the world; with no player it is dropped with a warning unless the
\* session has just logged out, and then silently; with a player that is not in
\* the world it is dropped silently whatever the flag.
C26_LoggedInAdmission ==
    [][(DrainPass /\ Head(recvQueueCopy).status = STATUS_LOGGEDIN)
         => IF _player # 0 /\ inWorld THEN PassExecutes
            ELSE IF _player = 0 /\ ~m_playerRecentlyLogout THEN PassWarns
            ELSE PassDrops(<<>>)]_vars

\* C26 witness: with the socket open all along and only LOGGEDIN opcodes, an
\* envelope is neither queued, nor in a copy, nor was it passed to a handler, so
\* the generic drain dropped it; the drain is in its loop with nothing logged, the
\* player attached and out of the world, and the session never logged out
C26_Witness ==
    /\ \A o \in opcodeTable : o.status = STATUS_LOGGEDIN
    /\ closed = {}
    /\ opcodeCounter >= 1
    /\ m_recvQueue = <<>> /\ m_recvQueueMap = <<>>
    /\ recvQueueCopy = <<>> /\ recvQueueMapCopy = <<>>
    /\ handled.generic = <<>> /\ handled.map = <<>>
    /\ upc = "drain"
    /\ trace = <<>>
    /\ _player # 0 /\ ~inWorld /\ ~m_playerRecentlyLogout

\* the place of an event in a sequence of events, 0 when it is not there
Pos(tr, e) == IF e \in Events(tr) THEN CHOOSE k \in 1..Len(tr) : tr[k] = e ELSE 0
Follows(tr, a, b) == Pos(tr, a) > 0 /\ Pos(tr, a) < Pos(tr, b)
LogoutComplete(sock) == <<"SendPacket", "SMSG_LOGOUT_COMPLETE", sock>>

\* the order of the end of a teardown: the account write, the save if there is
\* one, one of the two removals, the reference cleared, the logout-complete
\* message if one is sent, the character write
TailInOrder(tr) ==
    LET account == <<"SQL", "account.active_realm_id=0">>
        remove == <<"Map", "Remove">>
        cleanup == <<"CleanupsBeforeDelete">>
        delete == <<"Map", "DeleteFromWorld">>
        clear == <<"SetPlayer", 0, 0>>
        offline == <<"SQL", "characters.online=0">>
        removed == IF remove \in Events(tr) THEN remove ELSE delete
    IN /\ account \in Events(tr)
       /\ <<"SaveToDB">> \in Events(tr)
            => /\ Follows(tr, account, <<"SaveToDB">>)
               /\ Follows(tr, <<"SaveToDB">>, remove) \/ Follows(tr, <<"SaveToDB">>, cleanup)
       /\ IF remove \in Events(tr)
          THEN cleanup \notin Events(tr) /\ delete \notin Events(tr)
          ELSE Pos(tr, cleanup) > 0 /\ Pos(tr, delete) = Pos(tr, cleanup) + 1
       /\ Follows(tr, account, removed)
       /\ Follows(tr, removed, clear)
       /\ Follows(tr, clear, offline)
       /\ \A sock \in 1..MaxSockets :
             LogoutComplete(sock) \in Events(tr)
                => Follows(tr, clear, LogoutComplete(sock)) /\ Follows(tr, LogoutComplete(sock), offline)

\* C27: a LogoutPlayer with a player attached writes the account as inactive, then
\* saves the player if the save is not skipped, then removes the player from the
\* world (Map::Remove exactly when it is in the world, else the cleanup and the
\* raw deregistration, never both), then clears the player reference, then sends
\* logout-complete if the transport is open, then writes the character as offline:
\* both in the step that just ran it and for a call made in the current state.
C27_TeardownTailOrder ==
    /\ TeardownRan => TailInOrder(trace)
    /\ _player # 0 =>
          \A pl \in PlayerKinds :
              LET tr == LogoutPlayer(Session, now, pl).out
              IN /\ TailInOrder(tr)
                 /\ <<"SaveToDB">> \in Events(tr) <=> m_playerSave
                 /\ <<"Map", "Remove">> \in Events(tr) <=> inWorld
                 /\ LogoutComplete(m_Socket) \in Events(tr) <=> SocketOpen(Session)

\* C27 witness: a teardown that saved the player, took the player off no map and
\* told the client
C27_Witness ==
    /\ TeardownRan
    /\ <<"SaveToDB">> \in Events(trace)
    /\ <<"Map", "DeleteFromWorld">> \in Events(trace)
    /\ LogoutComplete(m_Socket) \in Events(trace)

\* the events of the middle of a teardown that a sequence of events holds
GuildEvents == {<<"Guild", "GE_SIGNED_OFF">>}
FriendEvents == {<<"SendFriendStatus", "FRIEND_OFFLINE">>}
GroupEvents == {<<"UninviteFromGroup">>, <<"RemoveFromGroup">>, <<"Group", "UpdatePlayerOnlineStatus">>}
\* every event of as that is in tr comes before every event of bs that is in tr
AllBefore(tr, as, bs) ==
    \A a \in as \cap Events(tr), b \in bs \cap Events(tr) : Pos(tr, a) < Pos(tr, b)

\* the part of the order that claim and code share: the pet is released, then the
\* player is saved, then the channels and the LFG system are left
PetSaveChannels(tr) ==
    /\ {<<"RemovePet">>, <<"CleanupChannels">>, <<"LFG", "Leave">>} \subseteq Events(tr)
    /\ AllBefore(tr, {<<"RemovePet">>}, {<<"SaveToDB">>})
    /\ AllBefore(tr, {<<"RemovePet">>, <<"SaveToDB">>}, {<<"CleanupChannels">>, <<"LFG", "Leave">>})

MiddleInOrder(tr) ==
    /\ <<"UninviteFromGroup">> \in Events(tr)
    /\ PetSaveChannels(tr)
    /\ AllBefore(tr, GuildEvents, {<<"RemovePet">>})
    /\ AllBefore(tr, {<<"CleanupChannels">>}, {<<"LFG", "Leave">>})
    /\ AllBefore(tr, {<<"LFG", "Leave">>}, GroupEvents)
    /\ AllBefore(tr, {<<"UninviteFromGroup">>},
                 {<<"RemoveFromGroup">>, <<"Group", "UpdatePlayerOnlineStatus">>})
    /\ AllBefore(tr, GroupEvents, FriendEvents)
    /\ AllBefore(tr, FriendEvents \cup GroupEvents,
                 {<<"Map", "Remove">>, <<"CleanupsBeforeDelete">>})

C29_LogoutLeavesCharSelection ==
    LogoutPlayerRan =>
        /\ ~m_playerLogout
        /\ m_playerRecentlyLogout
        /\ m_sessionState = STATE_CHAR_SELECTION
        /\ m_kickTime = now + KickDelay
        /\ _logoutTime = 0
        /\ \A d \in {0} \cup ClockDeltas : ~ShouldLogOut(Session, now + d)
        /\ \A pl \in PlayerKinds :
               <<"LogoutPlayer">> \notin Events(StateMachine(Session, now, pl).s.out)

\* C29 witness: the state machine ran LogoutPlayer with no player attached, for a
\* logout that had been requested and whose delay, or the reconnection grace, was over
C29_Witness ==
    /\ LogoutPlayerRan
    /\ ~TeardownRan
    /\ upc = "idle"
    /\ result \in {"keep", "remove"}
    /\ m_sessionState = STATE_CHAR_SELECTION
    /\ _logoutTime = 0
    /\ m_kickTime = now + KickDelay

\* C30 (as claimed): the teardown of an attached player by LogoutPlayer never runs
\* while a handler of the session is running in a drain (the step that ran it was
\* not taken with the world tick or the map tick inside a handler), and the two
\* ticks are never both inside a handler with the player attached.
C30_LogoutNotDuringHandler ==
    /\ TeardownRan => (upc # "handler" /\ mpc # "handler")
    /\ ~(upc = "handler" /\ mpc = "handler" /\ _player # 0)

\* a step taken by the network thread: QueuePacket counts the opcode, and
\* RequestNewSocket is called with a socket that has just been opened
NetworkStep == opcodeCounter' # opcodeCounter \/ nextSocket' # nextSocket

\* C31 (as claimed): a call made by the network thread writes the two queues and
\* the Messager only: it leaves the lifecycle state, the active and the pending
\* transport, the player reference and every session flag as they are.
C31_NetworkWritesQueuesOnly ==
    [][NetworkStep
         => UNCHANGED <<m_sessionState, m_Socket, m_requestSocket, _player, m_GUIDLow,
                        inWorld, _logoutTime, m_kickTime, m_inQueue, m_playerLoading,
                        m_playerLogout, m_playerRecentlyLogout, m_playerSave>>]_vars

\* a pass of the map drain: UpdateMap takes the envelope at the head of its copy
MapPass == mpc = "loop" /\ mpc' \in {"loop", "handler"}
           /\ recvQueueMapCopy # <<>> /\ recvQueueMapCopy' = Tail(recvQueueMapCopy)

\* C32: a pass of the map drain calls the handler exactly when the status of the
\* envelope is LOGGEDIN; an envelope of any other status is taken out of the copy
\* and the pass ends with no handler called, nothing logged or sent and every
\* session field as it was.
C32_MapDrainAdmitsLoggedInOnly ==
    [][MapPass
         => IF Head(recvQueueMapCopy).status = STATUS_LOGGEDIN
            THEN /\ mpc' = "handler"
                 /\ mcur' = Head(recvQueueMapCopy)
                 /\ trace' = <<<<"handler", Head(recvQueueMapCopy)>>>>
            ELSE /\ mpc' = "loop"
                 /\ trace' = <<>>
                 /\ handled' = handled
                 /\ UNCHANGED sessionVars]_vars

\* C32 witness: the map drain is past an envelope of its copy, the table has a
\* map-thread opcode of another status, and no map handler was ever called
C32_Witness ==
    /\ mpc = "loop"
    /\ mi >= 1
    /\ handled.map = <<>>
    /\ \E o \in opcodeTable : o.processing = PROCESS_MAP_THREAD /\ o.status # STATUS_LOGGEDIN
    /\ \A o \in opcodeTable : o.status # STATUS_LOGGEDIN

\* a step that calls a handler from a drain, and one in which it comes back
\* without a framing fault
HandlerEnterStep == (upc # "handler" /\ upc' = "handler") \/ (mpc # "handler" /\ mpc' = "handler")
NormalReturnStep == HandlerDoneStep /\ FaultsHandled' = {} /\ Alive'
\* a handler that was running before the step is still running after it
HandlerGoesOn == (upc = "handler" /\ upc' = "handler") \/ (mpc = "handler" /\ mpc' = "handler")
Relocated(tr) == <<"TeleportTo", "performed">> \in Events(tr)

\* C33 (as claimed): with a player attached, the call of a handler by ExecuteOpcode
\* leaves the delay-teleport marker set; while the handler goes on, with the same
\* player attached, the marker stays set and no relocation is performed; and the
\* normal return clears the marker and performs, in that step, the relocation
\* that was asked for.
C33_HandlerBracket ==
    [][/\ (HandlerEnterStep /\ _player # 0) => canDelayTeleport'
       /\ (HandlerGoesOn /\ canDelayTeleport /\ _player' = _player)
            => (canDelayTeleport' /\ ~Relocated(trace'))
       /\ (NormalReturnStep /\ _player # 0)
            => /\ ~canDelayTeleport'
               /\ ~hasDelayedTeleport'
               /\ hasDelayedTeleport <=> Relocated(trace')]_vars

\* C34 (as claimed): whenever no handler of the session is running, after a return
\* or after a framing fault that the drain caught, the delay-teleport marker of
\* the attached player is clear.
C34_MarkerClearedAfterDispatch ==
    (upc # "handler" /\ mpc # "handler" /\ _player # 0) => ~canDelayTeleport

\* C35 (as claimed): whatever the network thread did while Update ran, an Update
\* that returns with a pending transport attached has left the state CREATED, which
\* the next tick observes and promotes, and it reports "keep me".
C35_PendingSurvivesTick ==
    [][(StateMachineStep /\ m_requestSocket' # 0)
         => (m_sessionState' = STATE_CREATED /\ result' = "keep")]_vars

\* a step that is a call of RequestNewSocket offering socket sock
RequestNewSocketStep(sock, accepted) == trace' = << <<"RequestNewSocket", sock, accepted>> >>

\* C36: RequestNewSocket holds at most one pending transport.  Called with one
\* attached it returns false and leaves the pending transport, the active transport
\* and the state as they were; otherwise it stores the offered transport as pending,
\* sets the state to CREATED and returns true, with the active transport and the
\* player reference as they were.
C36_AtMostOnePending ==
    [][\A sock \in 1..MaxSockets : \A accepted \in BOOLEAN :
          RequestNewSocketStep(sock, accepted) =>
             IF m_requestSocket # 0
             THEN /\ ~accepted
                  /\ UNCHANGED <<m_requestSocket, m_Socket, m_sessionState>>
             ELSE /\ accepted
                  /\ m_requestSocket' = sock
                  /\ m_sessionState' = STATE_CREATED
                  /\ UNCHANGED <<m_Socket, _player>>]_vars

\* a call was refused while another transport was pending
C36_Witness ==
    \E sock \in 1..MaxSockets :
       /\ trace = << <<"RequestNewSocket", sock, FALSE>> >>
       /\ m_requestSocket \notin {0, sock}

\* C37: a session in OFFLINE has no active transport, and every transport that was
\* ever the active one has been finalized by the session at most once, through the
\* reconnect handoff and through the destruction of the session.
C37_OfflineHasNoSocket ==
    /\ m_sessionState = STATE_OFFLINE => m_Socket = 0
    /\ \A sock \in 1..MaxSockets : finalized[sock] <= 1

\* C37 witness: a session destroyed after a reconnect, the transport it started
\* with finalized by the handoff and the promoted one by the destructor
C37_Witness ==
    /\ upc = "destroyed"
    /\ finalized[1] = 1
    /\ finalized[2] = 1

\* SetOnline called in the current state
SetOnlineHere == SetOnline(Session)

\* C38: a session in READY has a player attached and an active transport present;
\* SetOnline moves the session to READY, clearing m_kickTime, exactly when a player
\* is attached and the active transport is present and open, and otherwise changes
\* nothing.
C38_ReadyHasPlayerAndSocket ==
    /\ m_sessionState = STATE_READY => (_player # 0 /\ m_Socket # 0)
    /\ IF _player # 0 /\ m_Socket # 0 /\ m_Socket \notin closed
       THEN SetOnlineHere = [Session EXCEPT !.m_sessionState = STATE_READY, !.m_kickTime = 0]
       ELSE SetOnlineHere = Session

\* C38 witness: a session in READY, which only SetOnline writes, with its
\* inactivity deadline cleared, whose transport has since been closed
C38_Witness ==
    /\ m_sessionState = STATE_READY
    /\ m_kickTime = 0
    /\ _player # 0
    /\ m_Socket \in closed

====
